---- MODULE Spec2Model ----
(***************************************************************************)
(* A model of src/main.py: a Streamlit chat page that keeps a transcript   *)
(* in st.session_state.messages and forwards each submitted text to a      *)
(* Groq-hosted model through get_ai_response.                              *)
(*                                                                         *)
(* One session is modelled.  main() is re-executed from its first line for *)
(* every widget event (a chat_input submission, a click on the clear       *)
(* button) and for a plain rerun.  A script run is straight-line code; the *)
(* only place where it waits for the outside world is llm.invoke (line 38, *)
(* reached from line 75).  The model therefore has two control points:     *)
(*   pc = "idle"      no script run is executing, the page waits           *)
(*   pc = "thinking"  the run is blocked inside llm.invoke                 *)
(* The model takes one script run per session at a time as given: a widget *)
(* event starts a run only at pc = "idle".  That dispatch is Streamlit's,  *)
(* not this repository's, and is not part of src/.                         *)
(***************************************************************************)
EXTENDS Integers, Sequences, FiniteSets, TLC

\* ------------------------------------------------------------------ bounds

\* Submissions accepted in one explored session.
MaxSubmissions == 3

\* ------------------------------------------------------------ value domains

\* Python's None (os.getenv without a value, chat_input without a submission).
NONE == "<None>"

\* What os.getenv("GROQ_API_KEY") can return: None, an empty value, a key.
Credentials == {NONE, "", "gsk_key"}

\* Texts a user can submit through st.chat_input (never empty: truthy).
Texts == {"Hello", "Bye"}

\* Texts the model-inference collaborator can answer with (response.content).
Replies == {"Hi there", "Sorry"}

SystemInstruction ==
    "You are a helpful AI assistant. Answer the user's questions clearly and concisely."

VARIABLES
    credential,    \* the value of GROQ_API_KEY in the process environment
    llmCache,      \* st.cache_resource's entry for load_llm: NONE or the client
    initialised,   \* "messages" in st.session_state
    messages,      \* st.session_state.messages (<<>> while not initialised)
    pc,            \* "idle" | "thinking"
    prompt,        \* st.chat_input's value in the current / last run
    clicked,       \* st.button's value in the current / last run
    metricTotal,   \* st.metric("Messages in Chat"): <<>> not rendered, <<n>>
    metricUser,    \* st.metric("Questions Asked"):  <<>> not rendered, <<n>>
    errorShown,    \* st.error of load_llm was rendered in the last run
    requests,      \* log of llm.invoke calls: history at the call, text, payload
    nSubmitted,    \* submissions accepted at line 67
    nCalls,        \* llm.invoke invocations issued
    outcome,       \* how the last run ended: none|ok|failed|cleared|halted|plain
    preLen,        \* Len(messages) when the current / last run started
    everCleared,   \* a clear action has happened in this session
    everFailed     \* an llm.invoke call has failed in this session

vars == <<credential, llmCache, initialised, messages, pc, prompt, clicked,
          metricTotal, metricUser, errorShown, requests, nSubmitted, nCalls,
          outcome, preLen, everCleared, everFailed>>

\* ------------------------------------------------------------------ helpers

Last(s) == s[Len(s)]

IsPrefix(s, t) == Len(s) <= Len(t) /\ SubSeq(t, 1, Len(s)) = s

RECURSIVE CountByRole(_, _)
\* len([msg for msg in messages if msg["role"] == role])
CountByRole(m, role) ==
    IF m = <<>> THEN 0
    ELSE (IF Head(m).role = role THEN 1 ELSE 0) + CountByRole(Tail(m), role)

\* ------------------------------------------------------------------ load_llm

\* `if not api_key`: None and "" are both falsy.
ApiKeyMissing == credential \in {NONE, ""}

CacheHit == llmCache # NONE

LoadLlmNeverStops == FALSE

\* load_llm runs its body only on a cache miss; with the key missing it
\* reports two errors and calls st.stop(), which ends the script run.
LoadLlmStops == ~CacheHit /\ ApiKeyMissing

\* The value load_llm returns (and st.cache_resource keeps) when it returns.
LoadLlmResult == IF CacheHit THEN llmCache ELSE "ChatGroq"

\* ------------------------------------------------------------ get_ai_response

SystemMessage(c) == [type |-> "system", content |-> c]

HumanMessage(c) == [type |-> "human", content |-> c]

HistoryAsMessages(m) ==
    [i \in 1..Len(m) |->
        [type |-> IF m[i].role = "user" THEN "human" ELSE "ai",
         content |-> m[i].content]]

GetAiRequestWithHistory(user_message) ==
    <<SystemMessage(SystemInstruction)>> \o HistoryAsMessages(messages)
        \o <<HumanMessage(user_message)>>

\* The list get_ai_response hands to llm.invoke.
GetAiRequest(user_message) ==
    <<SystemMessage(SystemInstruction), HumanMessage(user_message)>>

\* ------------------------------------------------------------ the transcript

UserTurn(text) == [role |-> "user", content |-> text]

AssistantTurnAsUser(text) == [role |-> "user", content |-> text]

AssistantTurn(text) == [role |-> "assistant", content |-> text]

AppendUserDeferred(m, text) == m

AppendUserInFront(m, text) == <<UserTurn(text)>> \o m

\* st.session_state.messages.append({"role": "user", "content": prompt})
AppendUser(m, text) == Append(m, UserTurn(text))

AppendAssistantForgotten(m, text) == m

\* st.session_state.messages.append({"role": "assistant", "content": response})
AppendAssistant(m, text) == Append(m, AssistantTurn(text))

ClearHistoryDropLast(m) == IF m = <<>> THEN <<>> ELSE SubSeq(m, 1, Len(m) - 1)

\* st.session_state.messages = []
ClearHistory(m) == <<>>

\* ------------------------------------------------------------------ sidebar

\* st.metric("Messages in Chat", len(st.session_state.messages))
StatsTotal(m) == <<Len(m)>>

StatsUserCountsReplies(m) ==
    IF m # <<>> THEN <<CountByRole(m, "assistant")>> ELSE <<>>

\* if st.session_state.messages: st.metric("Questions Asked", user_messages)
StatsUser(m) == IF m # <<>> THEN <<CountByRole(m, "user")>> ELSE <<>>

\* -------------------------------------------------------------------- state

Init ==
    /\ credential \in Credentials
    /\ llmCache = NONE
    /\ initialised = FALSE
    /\ messages = <<>>
    /\ pc = "idle"
    /\ prompt = NONE
    /\ clicked = FALSE
    /\ metricTotal = <<>>
    /\ metricUser = <<>>
    /\ errorShown = FALSE
    /\ requests = <<>>
    /\ nSubmitted = 0
    /\ nCalls = 0
    /\ outcome = "none"
    /\ preLen = 0
    /\ everCleared = FALSE
    /\ everFailed = FALSE

\* A run that load_llm stops at line 26: nothing after line 55 executes.
ScriptHalts(p, c) ==
    /\ LoadLlmStops
    /\ prompt' = p
    /\ clicked' = c
    /\ errorShown' = TRUE
    /\ metricTotal' = <<>>
    /\ metricUser' = <<>>
    /\ outcome' = "halted"
    /\ preLen' = Len(messages)
    /\ UNCHANGED <<credential, llmCache, initialised, messages, pc, requests,
                   nSubmitted, nCalls, everCleared, everFailed>>

\* Lines 55-59 of a run that load_llm lets pass.
ScriptStarts(p, c) ==
    /\ ~LoadLlmStops
    /\ llmCache' = LoadLlmResult
    /\ initialised' = TRUE
    /\ prompt' = p
    /\ clicked' = c
    /\ errorShown' = FALSE
    /\ preLen' = Len(messages)
    /\ UNCHANGED credential

\* A run with no widget event: the first run of the session, a manual rerun.
PlainRun ==
    /\ pc = "idle"
    /\ \/ ScriptHalts(NONE, FALSE)
       \/ /\ ScriptStarts(NONE, FALSE)
          /\ metricTotal' = StatsTotal(messages)
          /\ metricUser' = StatsUser(messages)
          /\ outcome' = "plain"
          /\ UNCHANGED <<messages, pc, requests, nSubmitted, nCalls,
                         everCleared, everFailed>>

\* A run started by a chat_input submission, up to the blocking llm.invoke.
Submit ==
    \E text \in Texts :
        /\ pc = "idle"
        /\ nSubmitted < MaxSubmissions
        /\ \/ ScriptHalts(text, FALSE)
           \/ /\ ScriptStarts(text, FALSE)
              /\ messages' = AppendUser(messages, text)
              /\ nSubmitted' = nSubmitted + 1
              /\ nCalls' = nCalls + 1
              /\ requests' = Append(requests,
                                    [history |-> messages, text |-> text,
                                     payload |-> GetAiRequest(text)])
              /\ pc' = "thinking"
              /\ metricTotal' = <<>>
              /\ metricUser' = <<>>
              /\ outcome' = "none"
              /\ UNCHANGED <<everCleared, everFailed>>

GatewayFailRetries ==
    /\ pc = "thinking"
    /\ nCalls < 2 * MaxSubmissions
    /\ nCalls' = nCalls + 1
    /\ everFailed' = TRUE
    /\ UNCHANGED <<credential, llmCache, initialised, messages, pc, prompt,
                   clicked, metricTotal, metricUser, errorShown, requests,
                   nSubmitted, outcome, preLen, everCleared>>

\* llm.invoke raises: nothing catches it, the run ends at line 75.
GatewayFail ==
    /\ pc = "thinking"
    /\ pc' = "idle"
    /\ outcome' = "failed"
    /\ everFailed' = TRUE
    /\ UNCHANGED <<credential, llmCache, initialised, messages, prompt, clicked,
                   metricTotal, metricUser, errorShown, requests, nSubmitted,
                   nCalls, preLen, everCleared>>

\* llm.invoke returns: lines 76-78, then the sidebar (the button is False in
\* a run that a chat_input submission started) and the two metrics.
GatewayReturn ==
    \E reply \in Replies :
        /\ pc = "thinking"
        /\ messages' = AppendAssistant(messages, reply)
        /\ metricTotal' = StatsTotal(messages')
        /\ metricUser' = StatsUser(messages')
        /\ pc' = "idle"
        /\ outcome' = "ok"
        /\ UNCHANGED <<credential, llmCache, initialised, prompt, clicked,
                       errorShown, requests, nSubmitted, nCalls, preLen,
                       everCleared, everFailed>>

\* A run started by the clear button: lines 91-93, then the run st.rerun()
\* starts at once, in which no widget has a value.
ClearClick ==
    /\ pc = "idle"
    /\ \/ ScriptHalts(NONE, TRUE)
       \/ /\ ScriptStarts(NONE, TRUE)
          /\ messages' = ClearHistory(messages)
          /\ metricTotal' = StatsTotal(messages')
          /\ metricUser' = StatsUser(messages')
          /\ outcome' = "cleared"
          /\ everCleared' = TRUE
          /\ UNCHANGED <<pc, requests, nSubmitted, nCalls, everFailed>>

Next ==
    \/ PlainRun
    \/ Submit
    \/ GatewayFail
    \/ GatewayReturn
    \/ ClearClick

Spec == Init /\ [][Next]_vars

\* ------------------------------------------------------------------- claims

\* No run is blocked inside llm.invoke: the state is one observed between turns.
BetweenTurns == pc = "idle"

\* C1: in a session where every Gateway call so far has succeeded and no clear
\* action has occurred, once the N submissions accepted so far have been
\* processed the Transcript holds exactly 2N Turns.
C1_LengthIsTwiceSubmissions ==
    (BetweenTurns /\ ~everCleared /\ ~everFailed)
        => Len(messages) = 2 * nSubmitted

C1_Witness ==
    /\ BetweenTurns
    /\ ~everCleared
    /\ ~everFailed
    /\ outcome = "ok"
    /\ nSubmitted = 2
    /\ Len(messages) = 4

\* C2 (as stated): after a turn whose Gateway call failed, the Transcript ends
\* with the user Turn of that message and its length is odd, from any prior
\* state of the session.
C2_FailedTurnLeavesOddLength ==
    outcome = "failed"
        => /\ messages # <<>>
           /\ Last(messages) = UserTurn(prompt)
           /\ Len(messages) % 2 = 1

\* C2 (amended): after a turn whose Gateway call failed, the Transcript is the
\* Transcript the turn started from plus the user Turn of that message as its
\* last element (no assistant Turn was appended), so its length is odd exactly
\* when the turn started from a Transcript of even length.
C2_FailedTurnKeepsUserTurnOnly ==
    outcome = "failed"
        => /\ messages # <<>>
           /\ Last(messages) = UserTurn(prompt)
           /\ Len(messages) = preLen + 1
           /\ CountByRole(messages, "user") > CountByRole(messages, "assistant")
           /\ (Len(messages) % 2 = 1) <=> (preLen % 2 = 0)

C2_Witness ==
    /\ outcome = "failed"
    /\ preLen = 1
    /\ Len(messages) = 2
    /\ messages[1].role = "user"
    /\ messages[2].role = "user"

\* C3: with the credential absent, load_llm stops every run before the
\* Transcript is initialised and before the chat input is read: the Transcript
\* stays empty, no submission is accepted and the Gateway is never called.
C3_NoCredentialNoTurns ==
    ApiKeyMissing
        => /\ messages = <<>>
           /\ ~initialised
           /\ llmCache = NONE
           /\ nSubmitted = 0
           /\ nCalls = 0
           /\ requests = <<>>
           /\ pc = "idle"

C3_Witness ==
    /\ ApiKeyMissing
    /\ outcome = "halted"
    /\ errorShown
    /\ prompt \in Texts

\* C4: every request handed to the Gateway is the two-message sequence
\* [fixed system instruction, the text just submitted], whatever the Transcript
\* held at the time, so equal texts give equal requests.
C4_RequestIsSystemPlusLatestText ==
    /\ \A i \in 1..Len(requests) :
          /\ Len(requests[i].payload) = 2
          /\ requests[i].payload[1] = SystemMessage(SystemInstruction)
          /\ requests[i].payload[2] = HumanMessage(requests[i].text)
    /\ \A i, j \in 1..Len(requests) :
          requests[i].text = requests[j].text
              => requests[i].payload = requests[j].payload
    /\ pc = "thinking"
          => /\ Last(requests).text = prompt
             /\ Last(messages) = UserTurn(prompt)

C4_Witness ==
    \E i, j \in 1..Len(requests) :
        /\ requests[i].text = requests[j].text
        /\ requests[i].history = <<>>
        /\ Len(requests[j].history) >= 2
        /\ requests[j].history[1].content # requests[j].text

\* C5: the clear action leaves a Transcript of length 0 whatever it held
\* before, and a clear action taken right after a clear action changes nothing.
C5_ClearEmptiesAndIsIdempotent ==
    /\ [](outcome = "cleared"
            => /\ messages = <<>>
               /\ ClearHistory(messages) = messages
               /\ metricTotal = <<0>>
               /\ metricUser = <<>>)
    /\ [][(outcome = "cleared" /\ outcome' = "cleared")
            => /\ messages' = messages
               /\ metricTotal' = metricTotal
               /\ metricUser' = metricUser
               /\ pc' = pc]_vars

C5_Witness ==
    /\ outcome = "cleared"
    /\ preLen % 2 = 1
    /\ messages = <<>>

\* C6: without a clear action the number of user Turns equals the number N of
\* submissions, a run that reaches the sidebar displays the Transcript length
\* as the total, and 'Questions Asked', when displayed, shows the number of
\* user Turns.
C6_StatsCountSubmissions ==
    /\ ~everCleared => CountByRole(messages, "user") = nSubmitted
    /\ outcome \in {"ok", "plain", "cleared"} => metricTotal = <<Len(messages)>>
    /\ metricTotal # <<>> => metricTotal = <<Len(messages)>>
    /\ metricUser # <<>> => metricUser = <<CountByRole(messages, "user")>>
    /\ (metricTotal # <<>> /\ messages # <<>>) => metricUser # <<>>

C6_Witness ==
    /\ ~everCleared
    /\ nSubmitted = 2
    /\ metricUser = <<2>>
    /\ metricTotal = <<3>>

\* C8: while every Gateway call has succeeded, the Transcript alternates roles
\* starting with user, and between turns every user Turn has its assistant
\* Turn (the length is even).
C8_TurnsAlternate ==
    ~everFailed
        => /\ \A i \in 1..Len(messages) :
                 messages[i].role = IF i % 2 = 1 THEN "user" ELSE "assistant"
           /\ BetweenTurns => Len(messages) % 2 = 0

C8_Witness ==
    /\ ~everFailed
    /\ everCleared
    /\ BetweenTurns
    /\ Len(messages) = 4

\* C9: the number of Gateway calls issued equals the number of submissions
\* accepted, in every state: one call per submission, a failed call is not
\* issued again.
C9_OneCallPerSubmission ==
    /\ nCalls = nSubmitted
    /\ Len(requests) = nCalls

C9_Witness ==
    /\ outcome = "failed"
    /\ BetweenTurns
    /\ nCalls = 2
    /\ nSubmitted = 2

\* C10: the Transcript starts empty, and every step leaves it as it is,
\* appends one Turn at its end (the old Transcript is a prefix of the new), or
\* empties it, which only the run started by the clear button does.
C10_AppendOrClearOnly ==
    /\ messages = <<>>
    /\ [][\/ messages' = messages
          \/ /\ Len(messages') = Len(messages) + 1
             /\ IsPrefix(messages, messages')
          \/ /\ messages' = <<>>
             /\ clicked'
             /\ outcome' = "cleared"]_vars

C10_Witness ==
    /\ everCleared
    /\ everFailed
    /\ Len(messages) = 3
    /\ messages[1].role = "user"
    /\ messages[2].role = "user"
    /\ messages[3].role = "assistant"

====
